---- MODULE Spec2Model ----
(***************************************************************************)
(* Sistema de Emergencias Villa Allende: the notification router           *)
(* (src/utils/whatsapp.py, src/app_corregido.py) and the backup engine     *)
(* (src/utils/backup.py) as state machines.                                *)
(*                                                                         *)
(* A phone number, like every Python str the code inspects character by   *)
(* character, is a sequence of one-character strings.                      *)
(***************************************************************************)
EXTENDS Integers, Sequences, FiniteSets, TLC

VARIABLES
    phone,          \* SpecPhone: the str handed to _clean_phone_number
    cleaned,        \* SpecPhone: results of the successive normalizations of phone
    llamado,        \* the emergency record being rendered / notified
    mensaje,        \* the rendered message (a sequence of lines)
    token,          \* WhatsAppManager.token
    uid,            \* WhatsAppManager.uid
    config,         \* Configuracion rows telefono_*: clave -> valor
    edits,          \* number of configuration edits made so far
    op,             \* the handler that ran last
    destinatarios,  \* the recipient list the last handler resolved
    deliveries,     \* the delivery calls of the last handler, in call order
    enviar_whatsapp,\* api_llamados: the request's enviar_whatsapp flag
    stored,         \* api_llamados: the Llamado row and its whatsapp Guardia rows
    result,         \* what the last handler returned (a dict: a record of its keys)
    clock,          \* datetime.now(), in whole seconds
    db,             \* content of emergency_system.db
    side,           \* content of emergency_system.db.restore_backup
    uploads,        \* the files under static/uploads
    backups,        \* the backup directory: timestamp -> archive file
    sealed,         \* history: the names create_backup reported success for
    nops,           \* number of backup-engine calls made so far
    backup_file,    \* restore_backup: its backup_file argument
    safety_backup   \* restore_backup: what its protective create_backup returned

vars == <<phone, cleaned, llamado, mensaje, token, uid, config, edits, op,
          destinatarios, deliveries, enviar_whatsapp, stored, result,
          clock, db, side, uploads, backups, sealed, nops,
          backup_file, safety_backup>>

phoneVars == <<phone, cleaned>>
notifyVars == <<llamado, mensaje, token, uid, config, edits, op,
                destinatarios, deliveries, enviar_whatsapp, stored, result>>
restoreVars == <<backup_file, safety_backup>>
backupVars == <<clock, db, side, uploads, backups, sealed, nops, restoreVars>>

(***************************************************************************)
(* Bounds of the model.                                                    *)
(***************************************************************************)
MaxBodyLen == 10
AreaLen == 3
MaxConfigEdits == 2
MaxClock == 1
MaxOps == 2
MaxAdmins == 2

(***************************************************************************)
(* Phone normalization: WhatsAppManager._clean_phone_number.               *)
(***************************************************************************)
Digits == {"0", "1", "2", "3", "4", "5", "6", "7", "8", "9"}

IsDigit(c) == c \in Digits

OnlyDigits(s) == SelectSeq(s, IsDigit)

StartsWith(s, p) == Len(s) >= Len(p) /\ SubSeq(s, 1, Len(p)) = p

\* A plausible slip: the 11-digit branch keeps the trunk digit.
CleanPhoneNumberKeepsTrunk(p) ==
    IF p = <<>> THEN <<>>
    ELSE LET clean_phone == OnlyDigits(p) IN
         IF Len(clean_phone) = 10 THEN <<"5", "4">> \o clean_phone
         ELSE IF Len(clean_phone) = 11 /\ StartsWith(clean_phone, <<"0">>)
              THEN <<"5", "4">> \o clean_phone
         ELSE IF Len(clean_phone) = 13 /\ StartsWith(clean_phone, <<"5", "4", "9">>)
              THEN clean_phone
         ELSE IF Len(clean_phone) = 12 /\ StartsWith(clean_phone, <<"5", "4">>)
              THEN SubSeq(clean_phone, 1, 2) \o <<"9">> \o SubSeq(clean_phone, 3, Len(clean_phone))
         ELSE clean_phone

CleanPhoneNumber(p) ==
    IF p = <<>> THEN <<>>
    ELSE LET clean_phone == OnlyDigits(p) IN
         IF Len(clean_phone) = 10 THEN <<"5", "4">> \o clean_phone
         ELSE IF Len(clean_phone) = 11 /\ StartsWith(clean_phone, <<"0">>)
              THEN <<"5", "4">> \o Tail(clean_phone)
         ELSE IF Len(clean_phone) = 13 /\ StartsWith(clean_phone, <<"5", "4", "9">>)
              THEN clean_phone
         ELSE IF Len(clean_phone) = 12 /\ StartsWith(clean_phone, <<"5", "4">>)
              THEN SubSeq(clean_phone, 1, 2) \o <<"9">> \o SubSeq(clean_phone, 3, Len(clean_phone))
         ELSE clean_phone

(***************************************************************************)
(* The inputs of SpecPhone: an optional prefix (trunk digit, country code, *)
(* country code with mobile indicator), a separator after the area code,   *)
(* and a body of MaxBodyLen-1 or MaxBodyLen digits, e.g. "0351-1234567".   *)
(***************************************************************************)
BodyDigits == {"0", "3"}

Prefixes == {<<>>, <<"0">>, <<"5", "4">>, <<"5", "4", "9">>, <<"+", "5", "4">>, <<"9">>}

Separators == {<<>>, <<"-">>, <<" ">>}

Bodies == UNION {[1..n -> BodyDigits] : n \in (MaxBodyLen - 1)..MaxBodyLen}

Compose(prefix, sep, body) ==
    prefix \o SubSeq(body, 1, AreaLen) \o sep \o SubSeq(body, AreaLen + 1, Len(body))

PhoneInputs ==
    {<<>>} \cup {Compose(pr, sep, b) : pr \in Prefixes, sep \in Separators, b \in Bodies}

(***************************************************************************)
(* Emergency records (models.Llamado, as read by the router).              *)
(* triage_data is a JSON text or NULL: kind "null" is NULL, "malformed" a  *)
(* text json.loads rejects, "json" an object whose keys are the flags that *)
(* are not "absent".                                                       *)
(***************************************************************************)
Tipos == {"medica", "bomberos", "seguridad", "defensa", "otros"}

Prioridades == {"rojo", "amarillo", "verde"}

Vias == {"domicilio", "via_publica"}

TriageKeys == <<"consciente", "respira", "sangrado", "patologia", "discapacidad">>

TriageKeySet == {TriageKeys[i] : i \in 1..Len(TriageKeys)}

FlagValues == {"true", "false", "absent"}

AllAbsent == [k \in TriageKeySet |-> "absent"]

TriageData ==
    {[kind |-> "json", flags |-> f] : f \in [TriageKeySet -> FlagValues]}
        \cup {[kind |-> k, flags |-> AllAbsent] : k \in {"null", "malformed"}}

Llamados ==
    [tipo : Tipos, prioridad : Prioridades, via_publica : Vias, triage_data : TriageData]

NoLlamado ==
    [tipo |-> "otros", prioridad |-> "verde", via_publica |-> "domicilio",
     triage_data |-> [kind |-> "null", flags |-> AllAbsent]]

(***************************************************************************)
(* Message rendering: WhatsAppManager.crear_mensaje_llamado.  A message is *)
(* the sequence of its lines; a line is [tag, emoji, text].                *)
(***************************************************************************)
tipos_emoji ==
    [t \in Tipos |->
        CASE t = "medica" -> "hospital"
          [] t = "bomberos" -> "fire_engine"
          [] t = "seguridad" -> "police_car"
          [] t = "defensa" -> "tornado"
          [] OTHER -> "telephone"]

prioridades_emoji ==
    [q \in Prioridades |->
        CASE q = "rojo" -> "red_circle"
          [] q = "amarillo" -> "yellow_circle"
          [] OTHER -> "green_circle"]

Upper ==
    [x \in Tipos \cup Prioridades |->
        CASE x = "medica" -> "MEDICA"
          [] x = "bomberos" -> "BOMBEROS"
          [] x = "seguridad" -> "SEGURIDAD"
          [] x = "defensa" -> "DEFENSA"
          [] x = "otros" -> "OTROS"
          [] x = "rojo" -> "ROJO"
          [] x = "amarillo" -> "AMARILLO"
          [] OTHER -> "VERDE"]

Line(tag, emoji, text) == [tag |-> tag, emoji |-> emoji, text |-> text]

BaseMessage(l) ==
    << Line("header", "rotating_light", "EMERGENCIA VILLA ALLENDE"),
       Line("tipo", tipos_emoji[l.tipo], Upper[l.tipo]),
       Line("prioridad", prioridades_emoji[l.prioridad], Upper[l.prioridad]),
       Line("solicitante", "bust", "nombre apellido"),
       Line("telefono", "telephone", "telefono"),
       Line("ubicacion", "pin", "direccion_completa"),
       Line("via", IF l.via_publica = "domicilio" THEN "house" ELSE "motorway",
            IF l.via_publica = "domicilio" THEN "Domicilio" ELSE "Via Publica"),
       Line("observaciones", "memo", "observaciones_iniciales"),
       Line("hora", "alarm_clock", "fecha"),
       Line("llamado", "id", "id"),
       Line("operador", "office_worker", "usuario.nombre") >>

\* bool(llamado.triage_data): NULL and the empty text are falsy.
TriageDataTruthy(td) == td.kind # "null"

\* any(triage.values())
AnyTriageValue(flags) == \E k \in TriageKeySet : flags[k] = "true"

TriageLines(flags) ==
    (IF flags["consciente"] = "false"
        THEN <<Line("triage", "warning", "NO CONSCIENTE")>> ELSE <<>>)
    \o (IF flags["respira"] = "false"
        THEN <<Line("triage", "warning", "NO RESPIRA")>> ELSE <<>>)
    \o (IF flags["sangrado"] = "true"
        THEN <<Line("triage", "drop_of_blood", "SANGRADO ABUNDANTE")>> ELSE <<>>)
    \o (IF flags["patologia"] = "true"
        THEN <<Line("triage", "medical_symbol", "PATOLOGIA GRAVE")>> ELSE <<>>)
    \o (IF flags["discapacidad"] = "true"
        THEN <<Line("triage", "wheelchair", "DISCAPACIDAD")>> ELSE <<>>)

TriageHeader == Line("triage_header", "stethoscope", "TRIAGE:")

crear_mensaje_llamado(l) ==
    BaseMessage(l) \o
    (IF l.tipo = "medica" /\ TriageDataTruthy(l.triage_data)
        THEN IF l.triage_data.kind = "malformed"
                THEN <<>>               \* json.loads raises; "except: pass"
             ELSE IF AnyTriageValue(l.triage_data.flags)
                THEN <<TriageHeader>> \o TriageLines(l.triage_data.flags)
             ELSE <<>>
        ELSE <<>>)

(***************************************************************************)
(* Responder configuration: the Configuracion rows telefono_*.  A valor    *)
(* that is NULL or '' (both falsy) is the empty sequence.                  *)
(***************************************************************************)
Claves == {"telefono_supervisor", "telefono_demva", "telefono_cec",
           "telefono_telemedicina", "telefono_bomberos", "telefono_seguridad",
           "telefono_defensa"}

Rep(c, n) == [i \in 1..n |-> c]

Area == <<"3", "5", "1">>

Numero(a, b) == Area \o Rep(a, 3) \o Rep(b, 4)

\* The rows init_default_configurations creates.
DefaultConfig == [k \in Claves |-> <<>>]

\* Every role configured, to seven distinct numbers.
FullConfig ==
    [k \in Claves |->
        CASE k = "telefono_supervisor" -> Numero("3", "4")    \* 3513334444
          [] k = "telefono_demva" -> Numero("1", "2")         \* 3511112222
          [] k = "telefono_cec" -> Numero("2", "3")
          [] k = "telefono_telemedicina" -> Numero("4", "5")
          [] k = "telefono_bomberos" -> Numero("5", "6")
          [] k = "telefono_seguridad" -> Numero("6", "7")
          [] OTHER -> Numero("7", "8")]

\* The supervisor's number written with trunk digit and a dash: 0351-3334444.
SupervisorAlias == <<"0">> \o Area \o <<"-">> \o Rep("3", 3) \o Rep("4", 4)

EditValues == {<<>>, FullConfig["telefono_supervisor"], SupervisorAlias}

\* The bodies POSTed to /api/configuracion: every role at once, or one role.
ConfigPosts ==
    {FullConfig} \cup
    {[k \in {c} |-> v] : c \in Claves, v \in EditValues}

Truthy(valor) == valor # <<>>

\* "Eliminar duplicados manteniendo orden": keeps the first of equal strings.
RECURSIVE Unicos(_)
Unicos(ds) ==
    IF ds = <<>> THEN <<>>
    ELSE LET init == Unicos(SubSeq(ds, 1, Len(ds) - 1))
             dest == ds[Len(ds)]
         IN IF \E i \in 1..Len(init) : init[i] = dest THEN init ELSE Append(init, dest)

Configured(cfg, clave) == IF Truthy(cfg[clave]) THEN <<cfg[clave]>> ELSE <<>>

\* A plausible slip: the two residence branches exchanged.
EspecificoSwapped(cfg, l) ==
    IF l.tipo = "medica" THEN
        IF l.via_publica = "domicilio" THEN
            IF l.prioridad \in {"rojo", "amarillo"}
                THEN Configured(cfg, "telefono_telemedicina")
                ELSE Configured(cfg, "telefono_demva")
        ELSE Configured(cfg, "telefono_cec")
    ELSE IF l.tipo = "bomberos" THEN Configured(cfg, "telefono_bomberos")
    ELSE IF l.tipo = "seguridad" THEN Configured(cfg, "telefono_seguridad")
    ELSE IF l.tipo = "defensa" THEN Configured(cfg, "telefono_defensa")
    ELSE <<>>

\* The role-specific candidate of obtener_destinatarios.
Especifico(cfg, l) ==
    IF l.tipo = "medica" THEN
        IF l.via_publica = "domicilio" THEN
            IF l.prioridad \in {"rojo", "amarillo"}
                THEN Configured(cfg, "telefono_demva")
                ELSE Configured(cfg, "telefono_telemedicina")
        ELSE Configured(cfg, "telefono_cec")
    ELSE IF l.tipo = "bomberos" THEN Configured(cfg, "telefono_bomberos")
    ELSE IF l.tipo = "seguridad" THEN Configured(cfg, "telefono_seguridad")
    ELSE IF l.tipo = "defensa" THEN Configured(cfg, "telefono_defensa")
    ELSE <<>>

obtener_destinatarios(cfg, l) ==
    Unicos(Configured(cfg, "telefono_supervisor") \o Especifico(cfg, l))

(***************************************************************************)
(* Delivery: WhatsAppManager.send_message.  The gateway's answer to one    *)
(* POST is an input: "sent" (JSON with sent = true), "rejected" (JSON      *)
(* without it), "http_error" (raise_for_status), "network_error",          *)
(* "timeout" (the three are requests.RequestException), "bad_json" (the    *)
(* body is no JSON: caught by "except Exception").                         *)
(***************************************************************************)
Outcomes == {"sent", "rejected", "network_error", "timeout", "bad_json"}

is_configured(t, u) == t # "" /\ u # ""

\* A plausible slip: only requests' exceptions are caught.
SendMessageRequestsOnly(t, u, outcome) ==
    IF ~is_configured(t, u) THEN "False"
    ELSE IF outcome = "sent" THEN "True"
    ELSE IF outcome = "bad_json" THEN "raise"
    ELSE "False"

\* What send_message gives its caller: "True", "False", or "raise" when an
\* exception leaves it.
SendMessage(t, u, outcome) ==
    IF ~is_configured(t, u) THEN "False"
    ELSE IF outcome = "sent" THEN "True"
    ELSE "False"

\* A plausible slip: the POST is addressed to the number as configured.
PostRaw(t, u, dest, outcome, returned) ==
    IF is_configured(t, u)
        THEN <<[dest |-> dest, to |-> dest, outcome |-> outcome, returned |-> returned]>>
        ELSE <<>>

\* The POST send_message makes (none when the gateway is not configured), with
\* what send_message then gave its caller.
Post(t, u, dest, outcome, returned) ==
    IF is_configured(t, u)
        THEN <<[dest |-> dest, to |-> CleanPhoneNumber(dest), outcome |-> outcome,
                returned |-> returned]>>
        ELSE <<>>

(***************************************************************************)
(* The dispatch loop of enviar_notificacion_llamado, after its first i     *)
(* recipients: the counters, the POSTs made, and whether an exception left *)
(* send_message (the loop stops there).                                    *)
(***************************************************************************)
RECURSIVE Dispatch(_, _, _, _, _)
Dispatch(t, u, dests, outs, i) ==
    IF i = 0 THEN [enviados |-> 0, errores |-> <<>>, calls |-> <<>>, raised |-> FALSE]
    ELSE LET prev == Dispatch(t, u, dests, outs, i - 1) IN
         IF prev.raised THEN prev
         ELSE LET r == SendMessage(t, u, outs[i]) IN
              [enviados |-> prev.enviados + (IF r = "True" THEN 1 ELSE 0),
               errores |-> IF r = "False" THEN Append(prev.errores, dests[i])
                           ELSE prev.errores,
               calls |-> prev.calls \o Post(t, u, dests[i], outs[i], r),
               raised |-> (r = "raise")]

NotConfiguredResult == [success |-> FALSE, error |-> "WhatsApp no configurado"]

\* A plausible slip: an empty recipient list reported as a success.
NoDestinatariosAsSuccess == [success |-> TRUE, error |-> "No hay destinatarios configurados"]

NoDestinatariosResult == [success |-> FALSE, error |-> "No hay destinatarios configurados"]

ExceptionResult == [success |-> FALSE, error |-> "str(e)"]

\* A plausible slip: every recipient is counted as sent.
DispatchResultAllCounted(dests, d) ==
    IF d.raised THEN ExceptionResult
    ELSE [success |-> Len(dests) > 0,
          enviados |-> Len(dests),
          total_destinatarios |-> Len(dests),
          errores |-> d.errores,
          destinatarios |-> dests]

DispatchResult(dests, d) ==
    IF d.raised THEN ExceptionResult
    ELSE [success |-> d.enviados > 0,
          enviados |-> d.enviados,
          total_destinatarios |-> Len(dests),
          errores |-> d.errores,
          destinatarios |-> dests]


(***************************************************************************)
(* The backup engine: BackupManager.  An archive is named after the second *)
(* it is created in, emergency_backup_<timestamp>.zip; the directory maps  *)
(* each timestamp to the file of that name.  A file is the set of its zip  *)
(* entries: the data-store copy, the CSV exports, configuration.json, the  *)
(* uploads, and metadata.json with its includes_uploads and record_counts  *)
(* fields.                                                                 *)
(***************************************************************************)
Names == 0..MaxClock

\* Contents of the data store: v1 is the store after installation (the admin
\* user and the default configuration rows, every other table empty), v2 the
\* store with one call registered.
DbContents == {"v1", "v2"}

\* SpecStore also has v0: the store v1 after its only administrator has been
\* deactivated.
StoreContents == DbContents \cup {"v0"}

Files == {"logo.png"}

\* The logical tables, in the order export_csv_data exports them.
Tables ==
    <<"usuarios", "llamados", "personas", "guardias", "observaciones",
      "servicios_comisionados", "configuracion">>

TableSet == {Tables[i] : i \in 1..Len(Tables)}

TableIndex(t) == CHOOSE i \in 1..Len(Tables) : Tables[i] = t

\* Model.query.all() / Model.query.count(): the rows of each table.
RowCounts(dbc) ==
    [t \in TableSet |->
        IF t \in {"usuarios", "configuracion"} THEN 1
        ELSE IF t = "llamados" /\ dbc = "v2" THEN 1
        ELSE 0]

\* The queries succeed on a complete data store only.
Queryable(dbc) == dbc \in StoreContents

NoCounts == [t \in {} |-> 0]

\* BackupManager._to_csv: the lines of the CSV text for n rows; no text at
\* all for an empty table.
to_csv(n) == IF n = 0 THEN <<>> ELSE <<"header">> \o [i \in 1..n |-> "row"]

\* BackupManager._export_csv_data: the tables exported before the exception
\* (if any) that ends the export at table csv_fail.
export_csv_data(dbc, csv_fail) ==
    IF ~Queryable(dbc) THEN NoCounts
    ELSE LET exported == {t \in TableSet :
                             csv_fail = "none" \/ TableIndex(t) < TableIndex(csv_fail)}
         IN [t \in exported |-> to_csv(RowCounts(dbc)[t])]

\* The csv_export/<table>.csv entries create_backup writes: `if csv_content`.
CsvEntries(csv_data) ==
    LET written == {t \in DOMAIN csv_data : csv_data[t] # <<>>}
    IN [t \in written |-> csv_data[t]]

\* BackupManager._get_record_counts
get_record_counts(dbc) == IF Queryable(dbc) THEN RowCounts(dbc) ELSE NoCounts

NoFile ==
    [exists |-> FALSE, db |-> "absent", csv |-> NoCounts, conf |-> FALSE,
     uploads |-> {}, meta |-> FALSE, includes_uploads |-> FALSE,
     record_counts |-> NoCounts, created |-> 0]

\* The steps of create_backup, in order; an I/O error can be raised at each.
Steps == <<"open", "db", "csv", "config", "uploads", "metadata", "getsize">>

\* The failures drawn as inputs: none, while the data store is copied, while
\* metadata.json is written, and after the archive is closed.
FailPoints == {"none", "db", "metadata", "getsize"}

\* One run of create_backup: the step an I/O error is raised at, the table
\* whose CSV export raises, and what another request commits to the data
\* store between the CSV export and the record count.
BackupRuns ==
    {[fail_at |-> f, csv_fail |-> "none", commit |-> "none"] : f \in FailPoints}
    \cup {[fail_at |-> "none", csv_fail |-> "llamados", commit |-> "none"]}
    \cup {[fail_at |-> "none", csv_fail |-> "none", commit |-> v] : v \in DbContents}

\* The runs of the protective backup of restore_backup: no other request
\* commits during a restore.
SafetyRuns == {io \in BackupRuns : io.commit = "none"}

StepOf(f) == CHOOSE i \in 1..Len(Steps) : Steps[i] = f

\* Step s was completed: the failure, if any, comes later.
Done(s, fail_at) == fail_at = "none" \/ StepOf(s) < StepOf(fail_at)

\* The data store as the record count sees it.
Committed(dbc, io) == IF io.commit = "none" THEN dbc ELSE io.commit

\* The file left at backup_path by zipfile.ZipFile(backup_path, 'w') and the
\* writes made before the failure: opening truncates a file already there.
WrittenArchive(old, now, dbc, ups, include_uploads, io) ==
    IF ~Done("open", io.fail_at) THEN old
    ELSE [exists |-> TRUE,
          created |-> now,
          db |-> IF Done("db", io.fail_at) THEN dbc ELSE "absent",
          csv |-> IF Done("csv", io.fail_at)
                     THEN CsvEntries(export_csv_data(dbc, io.csv_fail))
                     ELSE NoCounts,
          conf |-> Done("config", io.fail_at),
          uploads |-> IF include_uploads /\ Done("uploads", io.fail_at) THEN ups ELSE {},
          meta |-> Done("metadata", io.fail_at),
          includes_uploads |-> include_uploads /\ Done("metadata", io.fail_at),
          record_counts |-> IF Done("metadata", io.fail_at)
                               THEN get_record_counts(Committed(dbc, io))
                               ELSE NoCounts]

\* backup_filename: the timestamp, to the second.
BackupName(now) == now

\* A plausible slip: os.path.getsize read after the try block, so that its
\* OSError leaves create_backup.
CreateBackupResultSizeOutsideTry(name, fail_at) ==
    IF fail_at = "none" THEN [success |-> TRUE, backup_file |-> name, size |-> "getsize"]
    ELSE IF fail_at = "getsize" THEN [raised |-> "OSError"]
    ELSE [success |-> FALSE, error |-> "str(e)"]

\* What create_backup returns: every exception is caught at line 94.
CreateBackupResult(name, fail_at) ==
    IF fail_at = "none" THEN [success |-> TRUE, backup_file |-> name, size |-> "getsize"]
    ELSE [success |-> FALSE, error |-> "str(e)"]

\* BackupManager.create_backup: the directory afterwards and the result.
create_backup(dir, now, dbc, ups, include_uploads, io) ==
    LET name == BackupName(now) IN
    [name |-> name,
     backups |-> [dir EXCEPT ![name] =
                     WrittenArchive(dir[name], now, dbc, ups, include_uploads, io)],
     result |-> CreateBackupResult(name, io.fail_at)]

\* The names create_backup has reported success for, until delete_backup
\* removes the file.
Seal(old, r) ==
    IF "success" \in DOMAIN r.result /\ r.result.success THEN old \cup {r.name} ELSE old

\* restore_backup has not run: no backup_file argument, no safety_backup.
NoBackupFile == <<>>

NoSafetyBackup == [none |-> TRUE]

InitBackup ==
    /\ clock = 0
    /\ db = "v1"
    /\ side = "absent"
    /\ uploads = {}
    /\ backups = [n \in Names |-> NoFile]
    /\ sealed = {}
    /\ nops = 0
    /\ backup_file = NoBackupFile
    /\ safety_backup = NoSafetyBackup

(***************************************************************************)
(* State after construction: WhatsAppManager.__init__ finds no usable      *)
(* credentials, init_default_configurations has created empty rows.        *)
(***************************************************************************)
NoStored == [committed |-> FALSE, whatsapp_enviado |-> FALSE, guardias_whatsapp |-> 0]

NoResult == [none |-> TRUE]

InitNotify ==
    /\ llamado = NoLlamado
    /\ mensaje = <<>>
    /\ token = ""
    /\ uid = ""
    /\ config = DefaultConfig
    /\ edits = 0
    /\ op = "none"
    /\ destinatarios = <<>>
    /\ deliveries = <<>>
    /\ enviar_whatsapp = FALSE
    /\ stored = NoStored
    /\ result = NoResult

Init ==
    /\ phone = <<>>
    /\ cleaned = <<>>
    /\ InitNotify
    /\ InitBackup

(***************************************************************************)
(* Handlers of the notification router.  One request is served at a time:  *)
(* op names the handler that ran, the variables llamado .. result describe *)
(* its run, and Return hands the result to the caller, who discards it.    *)
(***************************************************************************)
Return ==
    /\ op # "none"
    /\ op' = "none"
    /\ llamado' = NoLlamado
    /\ mensaje' = <<>>
    /\ destinatarios' = <<>>
    /\ deliveries' = <<>>
    /\ enviar_whatsapp' = FALSE
    /\ stored' = NoStored
    /\ result' = NoResult
    /\ backup_file' = NoBackupFile
    /\ safety_backup' = NoSafetyBackup
    /\ UNCHANGED <<token, uid, config, edits, phoneVars,
                   clock, db, side, uploads, backups, sealed, nops>>

TokenValues == {"", "tok"}

UidValues == {"", "uid"}

\* The records notified in Spec: every category, priority and location, with
\* one triage sample (SpecMsg renders every triage assignment).
SampleTriage ==
    [kind |-> "json",
     flags |-> [k \in TriageKeySet |->
                  IF k \in {"consciente", "sangrado"} THEN "true"
                  ELSE IF k = "respira" THEN "false" ELSE "absent"]]

NotifyLlamados ==
    [tipo : Tipos, prioridad : Prioridades, via_publica : Vias,
     triage_data : {SampleTriage}]

\* WhatsAppManager.configure
Configure(t, u) ==
    /\ op = "none"
    /\ token' = t
    /\ uid' = u
    /\ op' = "configure"
    /\ llamado' = NoLlamado
    /\ mensaje' = <<>>
    /\ destinatarios' = <<>>
    /\ deliveries' = <<>>
    /\ enviar_whatsapp' = FALSE
    /\ stored' = NoStored
    /\ result' = NoResult
    /\ UNCHANGED <<config, edits, phoneVars, backupVars>>

\* api_configuracion, POST: every posted clave is written, then committed.
ApiConfiguracion(data) ==
    /\ op = "none"
    /\ edits < MaxConfigEdits
    /\ edits' = edits + 1
    /\ config' = [k \in Claves |-> IF k \in DOMAIN data THEN data[k] ELSE config[k]]
    /\ op' = "api_configuracion"
    /\ llamado' = NoLlamado
    /\ mensaje' = <<>>
    /\ destinatarios' = <<>>
    /\ deliveries' = <<>>
    /\ enviar_whatsapp' = FALSE
    /\ stored' = NoStored
    /\ result' = [success |-> TRUE, message |-> "Configuracion actualizada correctamente"]
    /\ UNCHANGED <<token, uid, phoneVars, backupVars>>

\* WhatsAppManager.enviar_notificacion_llamado
EnviarNotificacionLlamado(l) ==
    /\ op = "none"
    /\ op' = "enviar_notificacion_llamado"
    /\ llamado' = l
    /\ enviar_whatsapp' = FALSE
    /\ stored' = NoStored
    /\ IF ~is_configured(token, uid)
          THEN /\ mensaje' = <<>>
               /\ destinatarios' = <<>>
               /\ deliveries' = <<>>
               /\ result' = NotConfiguredResult
          ELSE LET dests == obtener_destinatarios(config, l) IN
               /\ mensaje' = crear_mensaje_llamado(l)
               /\ destinatarios' = dests
               /\ IF dests = <<>>
                     THEN /\ deliveries' = <<>>
                          /\ result' = NoDestinatariosResult
                     ELSE \E outs \in [1..Len(dests) -> Outcomes] :
                            LET d == Dispatch(token, uid, dests, outs, Len(dests)) IN
                            /\ deliveries' = d.calls
                            /\ result' = DispatchResult(dests, d)
    /\ UNCHANGED <<token, uid, config, edits, phoneVars, backupVars>>

\* The methods class WhatsAppManager defines.
WhatsAppManagerMethods ==
    {"__init__", "_load_config", "configure", "is_configured", "test_connection",
     "send_message", "crear_mensaje_llamado", "obtener_destinatarios",
     "enviar_notificacion_llamado", "enviar_mensaje_manual", "_clean_phone_number",
     "get_status"}

\* The loop of api_llamados over the recipients, inside its try block: it calls
\* whatsapp_manager.enviar_mensaje, and looking up a method the class does not
\* define raises AttributeError at the first recipient.
ApiLoop(t, u, dests, outs) ==
    IF dests = <<>> THEN [calls |-> <<>>, enviados |-> 0, raised |-> FALSE]
    ELSE IF "enviar_mensaje" \notin WhatsAppManagerMethods
        THEN [calls |-> <<>>, enviados |-> 0, raised |-> TRUE]
    ELSE LET d == Dispatch(t, u, dests, outs, Len(dests)) IN
         [calls |-> d.calls, enviados |-> d.enviados, raised |-> d.raised]

\* A plausible slip: an exception of the notification block reaches the outer
\* handler, which rolls back and answers with the error.
ApiResponseNotifyFatal(commit_ok, raised) ==
    IF commit_ok /\ ~raised
        THEN [success |-> TRUE, llamado_id |-> 1,
              message |-> "Llamado registrado exitosamente"]
        ELSE [success |-> FALSE, message |-> "Error creando llamado"]

\* The JSON api_llamados answers with: the notification block has its own
\* try / except, which only logs.
ApiResponse(commit_ok, raised) ==
    IF commit_ok
        THEN [success |-> TRUE, llamado_id |-> 1,
              message |-> "Llamado registrado exitosamente"]
        ELSE [success |-> FALSE, message |-> "Error creando llamado"]

\* A plausible slip: the flag is set for every resolved recipient.
WhatsappEnviadoOnResolve(a, dests) == dests # <<>>

\* llamado.whatsapp_enviado after the second commit: set by a delivery that
\* returned True, lost when the loop raised before the commit.
WhatsappEnviado(a, dests) == ~a.raised /\ a.enviados > 0

\* api_llamados, POST: the record is stored and committed, then notified when
\* the request asks for it.  commit_ok = FALSE is a failure of the first commit.
ApiLlamados(l, ew, commit_ok) ==
    /\ op = "none"
    /\ op' = "api_llamados"
    /\ llamado' = l
    /\ enviar_whatsapp' = ew
    /\ IF ~commit_ok
          THEN /\ stored' = NoStored
               /\ mensaje' = <<>>
               /\ destinatarios' = <<>>
               /\ deliveries' = <<>>
               /\ result' = ApiResponse(FALSE, FALSE)
          ELSE /\ IF ~ew
                     THEN /\ stored' = [NoStored EXCEPT !.committed = TRUE]
                          /\ result' = ApiResponse(TRUE, FALSE)
                          /\ mensaje' = <<>>
                          /\ destinatarios' = <<>>
                          /\ deliveries' = <<>>
                     ELSE LET dests == obtener_destinatarios(config, l) IN
                          /\ mensaje' = crear_mensaje_llamado(l)
                          /\ destinatarios' = dests
                          /\ \E outs \in IF "enviar_mensaje" \in WhatsAppManagerMethods
                                            THEN [1..Len(dests) -> Outcomes]
                                            ELSE {<<>>} :
                               LET a == ApiLoop(token, uid, dests, outs) IN
                               /\ deliveries' = a.calls
                               /\ result' = ApiResponse(TRUE, a.raised)
                               /\ stored' = [committed |-> TRUE,
                                             whatsapp_enviado |-> WhatsappEnviado(a, dests),
                                             guardias_whatsapp |->
                                                 IF a.raised THEN 0 ELSE a.enviados]
    /\ UNCHANGED <<token, uid, config, edits, phoneVars, backupVars>>

Next ==
    \/ \E t \in TokenValues, u \in UidValues : Configure(t, u)
    \/ \E data \in ConfigPosts : ApiConfiguracion(data)
    \/ \E l \in NotifyLlamados : EnviarNotificacionLlamado(l)
    \/ \E l \in NotifyLlamados, ew \in BOOLEAN, commit_ok \in BOOLEAN :
            ApiLlamados(l, ew, commit_ok)
    \/ Return

Spec == Init /\ [][Next]_vars

(***************************************************************************)
(* SpecMsg: crear_mensaje_llamado on every record and triage assignment.   *)
(***************************************************************************)
CrearMensajeLlamado(l) ==
    /\ op = "none"
    /\ op' = "crear_mensaje_llamado"
    /\ llamado' = l
    /\ mensaje' = crear_mensaje_llamado(l)
    /\ UNCHANGED <<token, uid, config, edits, destinatarios, deliveries,
                   enviar_whatsapp, stored, result, phoneVars, backupVars>>

NextMsg ==
    \/ \E l \in Llamados : CrearMensajeLlamado(l)
    \/ Return

SpecMsg == Init /\ [][NextMsg]_vars

(***************************************************************************)
(* SpecPhone: _clean_phone_number applied to an input, then to its own     *)
(* result.                                                                 *)
(***************************************************************************)
InitPhone ==
    /\ phone \in PhoneInputs
    /\ cleaned = <<>>
    /\ InitNotify
    /\ InitBackup

CleanPhone ==
    /\ Len(cleaned) < 2
    /\ cleaned' = Append(cleaned,
                         CleanPhoneNumber(IF cleaned = <<>> THEN phone
                                          ELSE cleaned[Len(cleaned)]))
    /\ UNCHANGED <<phone, notifyVars, backupVars>>

NextPhone == CleanPhone

SpecPhone == InitPhone /\ [][NextPhone]_vars

(***************************************************************************)
(* SpecBackup: the backup engine's operations, the clock, and the          *)
(* application's own writes to the data store and the uploads.             *)
(***************************************************************************)
ObservationReset ==
    /\ llamado' = NoLlamado
    /\ mensaje' = <<>>
    /\ destinatarios' = <<>>
    /\ deliveries' = <<>>
    /\ enviar_whatsapp' = FALSE
    /\ stored' = NoStored
    /\ UNCHANGED <<token, uid, config, edits, phoneVars>>

\* A second passes.
Tick ==
    /\ op = "none"
    /\ clock < MaxClock
    /\ clock' = clock + 1
    /\ UNCHANGED <<notifyVars, phoneVars, restoreVars,
                   db, side, uploads, backups, sealed, nops>>

\* The application commits to the data store.
DbWrite(v) ==
    /\ op = "none"
    /\ db' = v
    /\ db # v
    /\ UNCHANGED <<notifyVars, phoneVars, restoreVars,
                   clock, side, uploads, backups, sealed, nops>>

\* The application stores or removes an uploaded file.
UploadsWrite(fs) ==
    /\ op = "none"
    /\ uploads' = fs
    /\ uploads # fs
    /\ UNCHANGED <<notifyVars, phoneVars, restoreVars,
                   clock, db, side, backups, sealed, nops>>

\* BackupManager.create_backup
CreateBackup(include_uploads, io) ==
    /\ op = "none"
    /\ nops < MaxOps
    /\ nops' = nops + 1
    /\ op' = "create_backup"
    /\ LET r == create_backup(backups, clock, db, uploads, include_uploads, io) IN
       /\ backups' = r.backups
       /\ sealed' = Seal(sealed, r)
       /\ result' = r.result
    /\ db' = Committed(db, io)
    /\ ObservationReset
    /\ UNCHANGED <<clock, side, uploads, restoreVars>>

\* What verify_database_integrity looks at in the data-store file: whether it
\* exists, whether SQLite can read it, its tables, the number of active
\* administrators in usuarios and the email column of personas.
NoStore ==
    [exists |-> FALSE, connectable |-> FALSE, tables |-> {}, admins |-> 0,
     email |-> FALSE]

UnreadableStore == [NoStore EXCEPT !.exists = TRUE]

StoreOf(dbc) ==
    IF dbc = "absent" THEN NoStore
    ELSE IF dbc = "partial" THEN UnreadableStore
    ELSE [exists |-> TRUE, connectable |-> TRUE, tables |-> TableSet,
          admins |-> IF dbc = "v0" THEN 0 ELSE 1, email |-> TRUE]

\* The data-store files drawn as inputs of SpecVerify.
Stores ==
    {s \in [exists : BOOLEAN, connectable : BOOLEAN, tables : SUBSET TableSet,
            admins : 0..MaxAdmins, email : BOOLEAN] :
        /\ ~s.exists => ~s.connectable
        /\ ~s.connectable => s.tables = {}
        /\ s.admins > 0 => "usuarios" \in s.tables
        /\ s.email => "personas" \in s.tables}

\* required_tables, and the issue of each table that is missing, in order.
required_tables == Tables

RECURSIVE MissingTables(_, _)
MissingTables(existing_tables, i) ==
    IF i = 0 THEN <<>>
    ELSE MissingTables(existing_tables, i - 1) \o
         (IF required_tables[i] \in existing_tables THEN <<>>
          ELSE <<<<"Tabla faltante", required_tables[i]>>>>)

\* SELECT COUNT(*) FROM usuarios WHERE rol = 'admin' AND activo = 1: the query
\* raises when the table is missing.
AdminIssues(s) ==
    IF "usuarios" \notin s.tables
        THEN <<<<"Error verificando usuarios administradores">>>>
    ELSE IF s.admins = 0 THEN <<<<"No hay usuarios administradores activos">>>>
    ELSE <<>>

\* PRAGMA table_info(personas): no rows when the table is missing.
EmailIssues(s) ==
    IF s.email THEN <<>> ELSE <<<<"Campo 'email' faltante en tabla personas">>>>

\* A plausible slip: the administrator check is left out.
verify_database_integrity_no_admin(s) ==
    IF ~s.exists
        THEN [valid |-> FALSE, issues |-> <<<<"Archivo de base de datos no encontrado">>>>]
    ELSE IF ~s.connectable
        THEN [valid |-> FALSE, issues |-> <<<<"Error verificando integridad">>>>]
    ELSE LET issues == MissingTables(s.tables, Len(required_tables)) \o EmailIssues(s)
         IN [valid |-> Len(issues) = 0, issues |-> issues]

\* BackupManager.verify_database_integrity, of the data-store file s.
verify_database_integrity(s) ==
    IF ~s.exists
        THEN [valid |-> FALSE, issues |-> <<<<"Archivo de base de datos no encontrado">>>>]
    ELSE IF ~s.connectable
        THEN [valid |-> FALSE, issues |-> <<<<"Error verificando integridad">>>>]
    ELSE LET issues == MissingTables(s.tables, Len(required_tables))
                       \o AdminIssues(s) \o EmailIssues(s)
         IN [valid |-> Len(issues) = 0, issues |-> issues]

\* The steps of restore_backup, after the protective backup, at which an I/O
\* error can be raised.
RestoreFailPoints == {"none", "side_copy", "db_write", "uploads"}

\* The failure results of restore_backup, by the exception caught at line 176.
RestoreFailure == [success |-> FALSE, error |-> "str(e)"]

BackupNotFound == [success |-> FALSE, error |-> "Archivo de backup no encontrado"]

SafetyBackupFailed == [success |-> FALSE, error |-> "No se pudo crear backup de seguridad"]

InvalidArchive ==
    [success |-> FALSE, error |-> "Archivo de backup invalido: falta metadata.json"]

\* A plausible slip: the result of the protective backup is not looked at.
SafetyBackupUnchecked(r) == TRUE

\* `if not safety_backup['success']` passes.
SafetyBackupOk(r) == "success" \in DOMAIN r /\ r.success

\* A plausible slip: the data store is not copied aside before it is replaced.
PreRestoreCopySkipped(has_db, dbc, old_side) == old_side

\* shutil.copy2(db_path, db_path + '.restore_backup'), when the archive holds
\* a data store and one exists.
PreRestoreCopy(has_db, dbc, old_side) ==
    IF has_db /\ dbc # "absent" THEN dbc ELSE old_side

\* A plausible slip: the file is opened for writing and nothing is written.
DbFileWriteTruncateOnly(arch_db, dbc, fail_at) == "partial"

\* open(db_path, 'wb') and the write of the archive's copy: opening truncates,
\* a failure leaves what was written so far.
DbFileWrite(arch_db, dbc, fail_at) ==
    IF fail_at = "db_write" THEN "partial" ELSE arch_db

\* A plausible slip: the archive's files are extracted over the current tree.
RestoreUploadsMerged(arch_uploads, ups) == ups \cup arch_uploads

\* shutil.rmtree(uploads_dir) and the extraction of every uploads/ entry.
RestoreUploads(arch_uploads, ups) == arch_uploads

\* A plausible slip: a restore whose verifier reports issues is a failure.
RestoreSuccessIfValid(safety, dbc) ==
    IF "backup_file" \in DOMAIN safety /\ verify_database_integrity(StoreOf(dbc)).valid
        THEN [success |-> TRUE,
              safety_backup |-> safety.backup_file,
              integrity_check |-> verify_database_integrity(StoreOf(dbc))]
        ELSE RestoreFailure

\* The return of a restore that reached line 170.
RestoreSuccess(safety, dbc) ==
    IF "backup_file" \in DOMAIN safety
        THEN [success |-> TRUE,
              safety_backup |-> safety.backup_file,
              integrity_check |-> verify_database_integrity(StoreOf(dbc))]
        ELSE RestoreFailure

\* BackupManager.restore_backup
RestoreBackup(name, io, fail_at) ==
    /\ op = "none"
    /\ nops < MaxOps
    /\ nops' = nops + 1
    /\ op' = "restore_backup"
    /\ backup_file' = <<name>>
    /\ ObservationReset
    /\ UNCHANGED clock
    /\ IF ~backups[name].exists
          THEN /\ result' = BackupNotFound
               /\ safety_backup' = NoSafetyBackup
               /\ UNCHANGED <<db, side, uploads, backups, sealed>>
          ELSE LET safety == create_backup(backups, clock, db, uploads, TRUE, io)
                   arch == safety.backups[name]
                   has_db == arch.db # "absent"
               IN
               /\ backups' = safety.backups
               /\ sealed' = Seal(sealed, safety)
               /\ safety_backup' = safety.result
               /\ IF ~SafetyBackupOk(safety.result)
                     THEN /\ result' = SafetyBackupFailed
                          /\ UNCHANGED <<db, side, uploads>>
                  ELSE IF ~arch.meta
                     THEN /\ result' = InvalidArchive
                          /\ UNCHANGED <<db, side, uploads>>
                  ELSE IF has_db /\ db # "absent" /\ fail_at = "side_copy"
                     THEN /\ result' = RestoreFailure
                          /\ UNCHANGED <<db, side, uploads>>
                  ELSE /\ side' = PreRestoreCopy(has_db, db, side)
                       /\ db' = IF has_db THEN DbFileWrite(arch.db, db, fail_at) ELSE db
                       /\ IF has_db /\ fail_at = "db_write"
                             THEN /\ result' = RestoreFailure
                                  /\ UNCHANGED uploads
                          ELSE IF arch.includes_uploads /\ fail_at = "uploads"
                             THEN /\ result' = RestoreFailure
                                  /\ uploads' = {}
                          ELSE /\ uploads' = IF arch.includes_uploads
                                                THEN RestoreUploads(arch.uploads, uploads)
                                                ELSE uploads
                               /\ result' = RestoreSuccess(safety.result, db')

\* The backup_file argument '../emergency_system.db': os.path.join(backup_dir,
\* backup_file) is then the path of the data store.
DbPathArg == -1

DeleteArgs == Names \cup {DbPathArg}

\* A plausible slip: the file is reported removed and left in place.
RemoveFileKept(dir, name) == dir

\* os.remove(backup_path), for a path inside the backup directory.
RemoveFile(dir, name) == [dir EXCEPT ![name] = NoFile]

NotFound == [success |-> FALSE, error |-> "Archivo no encontrado"]

\* BackupManager.delete_backup
DeleteBackup(name) ==
    /\ op = "none"
    /\ nops < MaxOps
    /\ nops' = nops + 1
    /\ op' = "delete_backup"
    /\ backup_file' = <<name>>
    /\ ObservationReset
    /\ IF name = DbPathArg
          THEN /\ db' = "absent"
               /\ result' = IF db # "absent" THEN [success |-> TRUE] ELSE NotFound
               /\ UNCHANGED <<backups, sealed>>
          ELSE /\ IF backups[name].exists
                     THEN /\ backups' = RemoveFile(backups, name)
                          /\ sealed' = sealed \ {name}
                          /\ result' = [success |-> TRUE]
                     ELSE /\ result' = NotFound
                          /\ UNCHANGED <<backups, sealed>>
               /\ UNCHANGED db
    /\ UNCHANGED <<clock, side, uploads, safety_backup>>

\* os.listdir(backup_dir): the archive files, in any order.
Existing(dir) == {n \in Names : dir[n].exists}

Listings(dir) ==
    {o \in [1..Cardinality(Existing(dir)) -> Existing(dir)] :
        \A i, j \in DOMAIN o : i # j => o[i] # o[j]}

\* metadata = {}: no metadata.json, or the archive cannot be read.
NoMetadata == [k \in {} |-> TRUE]

\* The entry list_backups appends for the archive file `filename`.
BackupEntry(dir, filename) ==
    [filename |-> filename,
     size |-> "st_size",
     created |-> dir[filename].created,
     metadata |-> IF dir[filename].meta
                     THEN [includes_uploads |-> dir[filename].includes_uploads,
                           record_counts |-> dir[filename].record_counts]
                     ELSE NoMetadata]

\* One step of a stable sort by `created`, newest first: e goes after the
\* entries that are not older.
InsertNewestFirst(e, sorted) ==
    LET NotOlder(x) == x.created >= e.created
        k == Len(SelectSeq(sorted, NotOlder))
    IN SubSeq(sorted, 1, k) \o <<e>> \o SubSeq(sorted, k + 1, Len(sorted))

\* A plausible slip: reverse=True left out.
RECURSIVE SortOldestFirst(_)
SortOldestFirst(entries) ==
    IF entries = <<>> THEN <<>>
    ELSE LET e == entries[Len(entries)]
             sorted == SortOldestFirst(SubSeq(entries, 1, Len(entries) - 1))
             NotNewer(x) == x.created <= e.created
             k == Len(SelectSeq(sorted, NotNewer))
         IN SubSeq(sorted, 1, k) \o <<e>> \o SubSeq(sorted, k + 1, Len(sorted))

\* backups.sort(key=lambda x: x['created'], reverse=True)
RECURSIVE SortNewestFirst(_)
SortNewestFirst(entries) ==
    IF entries = <<>> THEN <<>>
    ELSE InsertNewestFirst(entries[Len(entries)],
                           SortNewestFirst(SubSeq(entries, 1, Len(entries) - 1)))

\* BackupManager.list_backups, with os.listdir giving the files in `order`.
list_backups(dir, order) ==
    SortNewestFirst([i \in DOMAIN order |-> BackupEntry(dir, order[i])])

ListBackups ==
    /\ op = "none"
    /\ op' = "list_backups"
    /\ \E order \in Listings(backups) : result' = list_backups(backups, order)
    /\ ObservationReset
    /\ UNCHANGED backupVars

NextBackup ==
    \/ Tick
    \/ \E v \in DbContents : DbWrite(v)
    \/ \E fs \in SUBSET Files : UploadsWrite(fs)
    \/ \E iu \in BOOLEAN, io \in BackupRuns : CreateBackup(iu, io)
    \/ \E n \in Names, io \in SafetyRuns, f \in RestoreFailPoints : RestoreBackup(n, io, f)
    \/ \E n \in Names : DeleteBackup(n)
    \/ Return

SpecBackup == Init /\ [][NextBackup]_vars

(***************************************************************************)
(* SpecStore: the backup engine without I/O failures other than one that   *)
(* leaves an archive without metadata.json, over more data stores: the     *)
(* engine may be constructed where no emergency_system.db exists, and the  *)
(* application may leave the store without an active administrator.        *)
(***************************************************************************)
InitStore ==
    /\ phone = <<>>
    /\ cleaned = <<>>
    /\ InitNotify
    /\ clock = 0
    /\ db \in {"v1", "absent"}
    /\ side = "absent"
    /\ uploads = {}
    /\ backups = [n \in Names |-> NoFile]
    /\ sealed = {}
    /\ nops = 0
    /\ backup_file = NoBackupFile
    /\ safety_backup = NoSafetyBackup

NoFailure == [fail_at |-> "none", csv_fail |-> "none", commit |-> "none"]

StoreRuns == {NoFailure, [NoFailure EXCEPT !.fail_at = "metadata"]}

NextStore ==
    \/ Tick
    \/ \E v \in StoreContents : DbWrite(v)
    \/ \E fs \in SUBSET Files : UploadsWrite(fs)
    \/ \E iu \in BOOLEAN, io \in StoreRuns : CreateBackup(iu, io)
    \/ \E n \in Names : RestoreBackup(n, NoFailure, "none")
    \/ \E n \in DeleteArgs : DeleteBackup(n)
    \/ ListBackups
    \/ Return

SpecStore == InitStore /\ [][NextStore]_vars

(***************************************************************************)
(* SpecVerify: verify_database_integrity applied to a data-store file.     *)
(* Here db holds what the verifier looks at in the file.                   *)
(***************************************************************************)
InitVerify ==
    /\ phone = <<>>
    /\ cleaned = <<>>
    /\ InitNotify
    /\ clock = 0
    /\ db \in Stores
    /\ side = "absent"
    /\ uploads = {}
    /\ backups = [n \in Names |-> NoFile]
    /\ sealed = {}
    /\ nops = 0
    /\ backup_file = NoBackupFile
    /\ safety_backup = NoSafetyBackup

VerifyDatabaseIntegrity ==
    /\ op = "none"
    /\ op' = "verify_database_integrity"
    /\ result' = verify_database_integrity(db)
    /\ ObservationReset
    /\ UNCHANGED backupVars

NextVerify == VerifyDatabaseIntegrity

SpecVerify == InitVerify /\ [][NextVerify]_vars

(***************************************************************************)
(* Properties.                                                             *)
(***************************************************************************)
CountryCode == <<"5", "4">>

\* The last handler resolved recipients: destinatarios holds what
\* obtener_destinatarios returned to it.
Notified == op = "enviar_notificacion_llamado" /\ is_configured(token, uid)

Resolved ==
    \/ Notified
    \/ op = "api_llamados" /\ enviar_whatsapp /\ stored.committed

\* The role the routing table of the specification gives a record.
ExpectedRole(l) ==
    CASE l.tipo = "medica" /\ l.via_publica = "domicilio" /\ l.prioridad \in {"rojo", "amarillo"}
             -> <<"telefono_demva">>
      [] l.tipo = "medica" /\ l.via_publica = "domicilio" /\ l.prioridad = "verde"
             -> <<"telefono_telemedicina">>
      [] l.tipo = "medica" /\ l.via_publica = "via_publica" -> <<"telefono_cec">>
      [] l.tipo = "bomberos" -> <<"telefono_bomberos">>
      [] l.tipo = "seguridad" -> <<"telefono_seguridad">>
      [] l.tipo = "defensa" -> <<"telefono_defensa">>
      [] OTHER -> <<>>

ExpectedClaves(l) == <<"telefono_supervisor">> \o ExpectedRole(l)

AllDistinct(cfg) ==
    /\ \A k \in Claves : cfg[k] # <<>>
    /\ \A k1, k2 \in Claves : k1 # k2 => cfg[k1] # cfg[k2]

\* C1: with every role configured to a distinct number, the resolved list is
\* the supervisor followed by the one number the routing table gives the
\* record's category, priority and location (none further for "otros").
C1_RoutingTable ==
    (Resolved /\ AllDistinct(config)) =>
        destinatarios = [i \in 1..Len(ExpectedClaves(llamado)) |->
                            config[ExpectedClaves(llamado)[i]]]

C1_Witness ==
    /\ Resolved /\ AllDistinct(config)
    /\ llamado.tipo = "medica" /\ llamado.via_publica = "domicilio"
    /\ llamado.prioridad = "verde"
    /\ destinatarios = <<config["telefono_supervisor"], config["telefono_telemedicina"]>>

\* C2: the resolved list holds no two entries that are equal after phone
\* normalization.
C2_NoDuplicateAfterNormalization ==
    Resolved =>
        \A i, j \in 1..Len(destinatarios) :
            i # j => CleanPhoneNumber(destinatarios[i]) # CleanPhoneNumber(destinatarios[j])

\* No value applicable to the record is configured.
NoneApplicable(cfg, l) ==
    \A i \in 1..Len(ExpectedClaves(l)) : cfg[ExpectedClaves(l)[i]] = <<>>

C4_Idempotent == Len(cleaned) = 2 => cleaned[2] = cleaned[1]

\* C5: a 10-digit national number d, and d behind the trunk digit "0",
\* both normalize to the country code followed by d, whatever non-digit
\* characters the input carries.
C5_NationalAndTrunk ==
    Len(cleaned) >= 1 =>
        LET d == OnlyDigits(phone) IN
        /\ Len(d) = 10 =>
              /\ cleaned[1] = CountryCode \o d
              /\ CleanPhoneNumber(<<"0">> \o phone) = cleaned[1]
        /\ (Len(d) = 11 /\ d[1] = "0") => cleaned[1] = CountryCode \o Tail(d)

C5_Witness ==
    /\ Len(cleaned) >= 1
    /\ Len(OnlyDigits(phone)) = 11
    /\ phone[1] = "0"
    /\ Len(phone) = 12
    /\ cleaned[1] = CountryCode \o Tail(OnlyDigits(phone))

\* C6: in one notification of a record, the number of delivery attempts equals
\* the number of resolved recipients, whatever the outcomes.
C6_EveryRecipientAttempted ==
    Resolved => Len(deliveries) = Len(destinatarios)

\* C7: enviar_notificacion_llamado makes one delivery call per resolved
\* recipient, in resolution order, each addressed to the normalized number;
\* the medical, residence, red record with demva = 3511112222 and
\* supervisor = 3513334444 gives the calls 543513334444, 543511112222.
C7_DeliveryOrder ==
    Notified =>
        /\ Len(deliveries) = Len(destinatarios)
        /\ \A i \in 1..Len(deliveries) :
              /\ deliveries[i].dest = destinatarios[i]
              /\ deliveries[i].to = CleanPhoneNumber(destinatarios[i])
        /\ ( /\ llamado.tipo = "medica" /\ llamado.via_publica = "domicilio"
             /\ llamado.prioridad = "rojo"
             /\ config["telefono_demva"] = Numero("1", "2")
             /\ config["telefono_supervisor"] = Numero("3", "4") )
           => [i \in 1..Len(deliveries) |-> deliveries[i].to]
                 = << CountryCode \o Numero("3", "4"), CountryCode \o Numero("1", "2") >>

C7_Witness ==
    /\ Notified
    /\ llamado.tipo = "medica" /\ llamado.via_publica = "domicilio"
    /\ llamado.prioridad = "rojo"
    /\ Len(deliveries) = 2
    /\ deliveries[1].to = <<"5", "4", "3", "5", "1", "3", "3", "3", "4", "4", "4", "4">>
    /\ deliveries[2].to = <<"5", "4", "3", "5", "1", "1", "1", "1", "2", "2", "2", "2">>

\* The abnormal flags of a complete triage assignment, in the fixed order.
Abnormal(flags) ==
    (IF flags["consciente"] = "false" THEN <<"NO CONSCIENTE">> ELSE <<>>)
    \o (IF flags["respira"] = "false" THEN <<"NO RESPIRA">> ELSE <<>>)
    \o (IF flags["sangrado"] = "true" THEN <<"SANGRADO ABUNDANTE">> ELSE <<>>)
    \o (IF flags["patologia"] = "true" THEN <<"PATOLOGIA GRAVE">> ELSE <<>>)
    \o (IF flags["discapacidad"] = "true" THEN <<"DISCAPACIDAD">> ELSE <<>>)

IsTriageLine(line) == line.tag \in {"triage_header", "triage"}

TriageSection(m) == SelectSeq(m, IsTriageLine)

CompleteAssignment(td) ==
    td.kind = "json" /\ \A k \in TriageKeySet : td.flags[k] # "absent"

\* C8: for a medical record with a complete triage assignment the message has
\* a triage section iff some flag is abnormal, and the section lists exactly
\* the abnormal flags in the fixed order; other records get no section.
C8_TriageSection ==
    (op = "crear_mensaje_llamado" /\ CompleteAssignment(llamado.triage_data)) =>
        LET ab == Abnormal(llamado.triage_data.flags)
            sec == TriageSection(mensaje)
        IN IF llamado.tipo = "medica" /\ ab # <<>>
              THEN /\ Len(sec) = Len(ab) + 1
                   /\ sec[1].tag = "triage_header"
                   /\ \A i \in 1..Len(ab) : sec[i + 1].text = ab[i]
              ELSE sec = <<>>

IsFailure(call) == call.outcome # "sent"

Dests(calls) == [i \in 1..Len(calls) |-> calls[i].dest]

\* C9: a delivery that fails (network error, rejection, timeout, unreadable
\* answer) makes send_message return False, is recorded as the failure of that
\* recipient alone, and leaves the other recipients attempted;
\* enviar_notificacion_llamado returns a result whatever the outcomes.
C9_FailurePerRecipient ==
    Notified =>
        /\ "success" \in DOMAIN result
        /\ Len(deliveries) = Len(destinatarios)
        /\ \A i \in 1..Len(deliveries) :
              deliveries[i].returned = IF deliveries[i].outcome = "sent" THEN "True"
                                       ELSE "False"
        /\ destinatarios # <<>> =>
              /\ "errores" \in DOMAIN result
              /\ result.errores = Dests(SelectSeq(deliveries, IsFailure))
              /\ result.enviados = Len(deliveries) - Len(result.errores)

C9_Witness ==
    /\ Notified
    /\ Len(deliveries) = 2
    /\ deliveries[1].outcome = "timeout"
    /\ deliveries[2].outcome = "sent"
    /\ result.success = TRUE
    /\ result.enviados = 1
    /\ result.errores = <<destinatarios[1]>>

\* C10: an archive create_backup has reported success for keeps its content
\* under its name until delete_backup removes it.
C10_ArchivesImmutable ==
    [][\A n \in sealed : op' # "delete_backup" => backups'[n] = backups[n]]_vars

\* C11: every file under a final archive name is a complete archive: it
\* contains metadata.json, whatever step of create_backup failed.
C11_NoPartialArchive ==
    \A n \in Names : backups[n].exists => backups[n].meta

\* The archive restore_backup was asked for, before and after the call.
Requested == backups[backup_file'[1]]

RequestedAfter == backups'[backup_file'[1]]

\* C12: a restore leaves the data store with its content before the call or
\* with the complete copy embedded in the archive, failures included.
C12_DataStoreNeverPartial ==
    [][op' = "restore_backup" =>
          \/ db' = db
          \/ RequestedAfter.exists /\ db' = RequestedAfter.db]_vars

\* C13: restoring an existing archive that lacks metadata.json fails and
\* leaves the data store and the uploaded files as they were.
C13_InvalidArchiveRejected ==
    [][(op' = "restore_backup" /\ Requested.exists /\ ~Requested.meta) =>
          /\ ~result'.success
          /\ db' = db
          /\ uploads' = uploads]_vars

\* C14: a restore rejected because metadata.json is absent has created no
\* archive: the backup directory is as it was before the call.
C14_MarkerCheckedFirst ==
    [][(op' = "restore_backup" /\ result' = InvalidArchive) =>
          backups' = backups]_vars

\* The protective backup of the last restore reported a failure / a success.
SafetyFailed(r) == "success" \in DOMAIN r /\ ~r.success

SafetySucceeded(r) == "success" \in DOMAIN r /\ r.success

\* C15: when the protective backup fails the restore fails and has touched
\* neither the data store, nor its side copy, nor the uploads; and a restore
\* that changes any of them has a protective backup that succeeded.
C15_SafetyBackupFirst ==
    [][op' = "restore_backup" =>
          /\ SafetyFailed(safety_backup') =>
                /\ ~result'.success
                /\ db' = db
                /\ side' = side
                /\ uploads' = uploads
          /\ (db' # db \/ side' # side \/ uploads' # uploads) =>
                SafetySucceeded(safety_backup')]_vars

\* A restore of a valid archive holding another data store, stopped by its
\* failed protective backup.
C15_Witness ==
    /\ op = "restore_backup"
    /\ SafetyFailed(safety_backup)
    /\ result = SafetyBackupFailed
    /\ backups[backup_file[1]].meta
    /\ backups[backup_file[1]].db \in DbContents \ {db}

\* The restore wrote the data store.
Replaced ==
    \/ db' # db
    \/ result'.success /\ RequestedAfter.db # "absent"

\* C16: a restore that replaces the data store has copied the content it had
\* before the call to the side file, and the copy outlives a later failure.
C16_SideFileKeepsOldStore ==
    [][(op' = "restore_backup" /\ Replaced) => side' = db]_vars

\* The second call of the backup engine is a restore that replaced the store
\* v1 by the archived v2 and then failed while restoring the uploads: the
\* side file holds v1.
C16_Witness ==
    /\ op = "restore_backup"
    /\ nops = 2
    /\ result = RestoreFailure
    /\ db = "v2"
    /\ side = "v1"
    /\ backups[backup_file[1]].db = "v2"

\* C17: a successful restore of an archive create_backup reported success
\* for, taken of the data store as it still is, leaves the data store with
\* the same content and row counts, and valid if it was valid.
C17_RoundTrip ==
    [][(/\ op' = "restore_backup"
        /\ result'.success
        /\ backup_file'[1] \in sealed
        /\ Requested.meta
        /\ Requested.db = db) =>
          /\ db' = db
          /\ get_record_counts(db') = get_record_counts(db)
          /\ verify_database_integrity(StoreOf(db)).valid =>
                result'.integrity_check.valid]_vars

\* The second call of the backup engine is a successful restore, in a later
\* second, of the archive taken of the data store v2, which is still v2.
C17_Witness ==
    /\ op = "restore_backup"
    /\ nops = 2
    /\ result.success
    /\ result.integrity_check.valid
    /\ result.safety_backup # backup_file[1]
    /\ backup_file[1] \in sealed
    /\ db = "v2"
    /\ side = "v2"
    /\ backups[backup_file[1]].db = "v2"

\* The data rows of table t embedded in the CSV export of archive a.
CsvRows(a, t) == IF t \in DOMAIN a.csv THEN Len(a.csv[t]) - 1 ELSE 0

\* C18: in every archive with metadata.json, the record count of each table
\* equals the number of rows in the archive's CSV export of that table.
C18_CountsMatchCsv ==
    \A n \in Names :
        backups[n].meta =>
            \A t \in DOMAIN backups[n].record_counts :
                backups[n].record_counts[t] = CsvRows(backups[n], t)

\* C19: the archive of a successful create_backup holds the data-store copy,
\* a CSV export of each of the seven tables, configuration.json and
\* metadata.json.
C19_ArchiveLayout ==
    (op = "create_backup" /\ result.success) =>
        LET a == backups[result.backup_file] IN
        /\ a.exists
        /\ a.db # "absent"
        /\ DOMAIN a.csv = TableSet
        /\ a.conf
        /\ a.meta

\* The dict create_backup returns, on success and on failure.
IsBackupResult(r) ==
    /\ "success" \in DOMAIN r
    /\ r.success => {"backup_file", "size"} \subseteq DOMAIN r
    /\ ~r.success => "error" \in DOMAIN r

\* C20: create_backup returns a result whatever step fails, to its caller and
\* to restore_backup: success with the file name and size, or failure with
\* an error; an archive left without metadata.json is reported as a failure.
C20_CreateBackupNeverRaises ==
    /\ op = "create_backup" =>
          /\ IsBackupResult(result)
          /\ result.success => backups[result.backup_file].meta
          /\ ~backups[clock].meta => ~result.success
    /\ (op = "restore_backup" /\ safety_backup # NoSafetyBackup) =>
          IsBackupResult(safety_backup)

\* create_backup wrote the whole archive, failed to read its size and
\* reported the failure.
C20_Witness ==
    /\ op = "create_backup"
    /\ "success" \in DOMAIN result
    /\ ~result.success
    /\ "error" \in DOMAIN result
    /\ backups[clock].meta

\* C23: the verifier reports valid exactly when it lists no issue, and it
\* lists no issue exactly when the file exists and can be read, the seven
\* tables are there, an active administrator exists and personas has email.
C23_VerifierVerdict ==
    op = "verify_database_integrity" =>
        /\ result.valid <=> result.issues = <<>>
        /\ result.issues = <<>> <=>
              /\ db.exists
              /\ db.connectable
              /\ db.tables = TableSet
              /\ db.admins >= 1
              /\ db.email

\* The verifier ran on a complete store whose administrators are all
\* inactive: one issue, not valid.
C23_Witness ==
    /\ op = "verify_database_integrity"
    /\ db.tables = TableSet
    /\ db.email
    /\ db.admins = 0
    /\ ~result.valid
    /\ Len(result.issues) = 1

\* C21: a restore that replaced the data store returns success with the
\* protective backup's file name and the verifier's findings on the restored
\* store, whatever the findings are.
C21_FindingsNeverFail ==
    [][(/\ op' = "restore_backup"
        /\ SafetySucceeded(safety_backup')
        /\ RequestedAfter.meta) =>
          /\ result'.success
          /\ result'.safety_backup = safety_backup'.backup_file
          /\ result'.integrity_check = verify_database_integrity(StoreOf(db'))]_vars

\* A successful restore of an archived store without an active administrator,
\* over a store that had one: the result carries the finding.
C21_Witness ==
    /\ op = "restore_backup"
    /\ result.success
    /\ db = "v0"
    /\ side = "v1"
    /\ backups[backup_file[1]].db = "v0"
    /\ ~result.integrity_check.valid
    /\ result.integrity_check.issues = <<<<"No hay usuarios administradores activos">>>>
    /\ backups[result.safety_backup].exists

\* C22: after a successful restore of an archive whose metadata says
\* includes_uploads, the uploads tree holds exactly the archive's files.
C22_UploadsReplaced ==
    [][(/\ op' = "restore_backup"
        /\ result'.success
        /\ RequestedAfter.includes_uploads) =>
          uploads' = RequestedAfter.uploads]_vars

\* A successful restore of an archive taken with uploads included and no
\* file uploaded, over a tree that held logo.png (the protective backup,
\* another archive, has it): the tree is empty.
C22_Witness ==
    /\ op = "restore_backup"
    /\ result.success
    /\ backups[backup_file[1]].includes_uploads
    /\ backups[backup_file[1]].uploads = {}
    /\ result.safety_backup # backup_file[1]
    /\ backups[result.safety_backup].uploads = {"logo.png"}
    /\ uploads = {}

\* The file names of a listing.
Filenames(listing) == {listing[i].filename : i \in DOMAIN listing}

\* C24: the listing has one entry per archive file, newest first, and the
\* entry of an archive without metadata.json has empty metadata.
C24_ListingComplete ==
    op = "list_backups" =>
        /\ Filenames(result) = Existing(backups)
        /\ Len(result) = Cardinality(Existing(backups))
        /\ \A i, j \in DOMAIN result :
              i < j => result[i].created >= result[j].created
        /\ \A i \in DOMAIN result :
              /\ result[i].created = backups[result[i].filename].created
              /\ result[i].metadata = NoMetadata <=> ~backups[result[i].filename].meta

\* A listing of two archives: the newer one has no metadata.json and comes
\* first with empty metadata, the older one follows with its metadata.
C24_Witness ==
    /\ op = "list_backups"
    /\ Len(result) = 2
    /\ result[1].created > result[2].created
    /\ result[1].metadata = NoMetadata
    /\ result[2].metadata # NoMetadata

C27_StoreEqualsArchive ==
    [][(op' = "restore_backup" /\ result'.success) => db' = RequestedAfter.db]_vars

\* C30: delete_backup changes nothing but the file of the given name in the
\* backup directory: the other archives, the data store and the uploads stay.
C30_DeleteFrame ==
    [][op' = "delete_backup" =>
          /\ db' = db
          /\ side' = side
          /\ uploads' = uploads
          /\ \A n \in Names : <<n>> # backup_file' => backups'[n] = backups[n]]_vars

\* The deliveries of the last handler that returned True.
Succeeded(delivery) == delivery.returned = "True"

\* C26: api_llamados renders, resolves and delivers only once the record is
\* committed, and with the record committed it answers success whatever
\* happened to the notification: the record stays stored.
C26_NotifyAfterCommit ==
    op = "api_llamados" =>
        /\ (mensaje # <<>> \/ destinatarios # <<>> \/ deliveries # <<>>) =>
              stored.committed
        /\ stored.committed <=> result.success
        /\ result.success => "llamado_id" \in DOMAIN result

\* The notification of a committed record failed at its first recipient:
\* recipients were resolved, nothing was delivered, the answer is success.
C26_Witness ==
    /\ op = "api_llamados"
    /\ enviar_whatsapp
    /\ is_configured(token, uid)
    /\ destinatarios # <<>>
    /\ deliveries = <<>>
    /\ stored.committed
    /\ result.success

C29_DispatchAccounting ==
    op = "enviar_notificacion_llamado" =>
        IF ~is_configured(token, uid)
           THEN deliveries = <<>> /\ ~result.success
           ELSE destinatarios # <<>> =>
                  /\ {"enviados", "errores", "total_destinatarios", "destinatarios"}
                        \subseteq DOMAIN result
                  /\ result.enviados + Len(result.errores) = result.total_destinatarios
                  /\ result.total_destinatarios = Len(destinatarios)
                  /\ result.destinatarios = destinatarios
                  /\ result.enviados = Len(SelectSeq(deliveries, Succeeded))
                  /\ result.errores = Dests(SelectSeq(deliveries, IsFailure))
                  /\ result.success <=> result.enviados > 0

\* Both deliveries of a notification failed: nothing sent, both recipients
\* listed in order, the result is a failure.
C29_Witness ==
    /\ Notified
    /\ Len(destinatarios) = 2
    /\ Len(deliveries) = 2
    /\ "enviados" \in DOMAIN result
    /\ result.enviados = 0
    /\ result.errores = destinatarios
    /\ ~result.success

====
